---- MODULE Spec2Model ----
(***************************************************************************)
(* CCI_KilobotController (ci_kilobot_controller.cpp): the simulator-side   *)
(* controller that shares a kilobot_state_t record with a forked behavior  *)
(* process and runs it in lock step with SIGCONT / waitpid(WUNTRACED).     *)
(*                                                                         *)
(* Two processes are modelled: the simulator, whose position is pc, and    *)
(* the behavior child, whose position is childSt.  The operating system    *)
(* state the code touches (the named shared memory object, the pending     *)
(* SIGTERM of the child, zombie/reaped) is part of the state.              *)
(***************************************************************************)
EXTENDS Integers, Sequences, FiniteSets, TLC

(* ---- bounds of the model ---- *)
MaxSteps  == 2      \* ControlStep calls per run
MaxResets == 1      \* Reset calls per run

(* ---- program constants ---- *)
KILOBOT_MAX_RX == 2           \* inbox size of kilobot_state_t (scaled down)
UInt8Range     == 256         \* Min<UInt8>: the packet count is narrowed to 8 bits
NoPID          == -1          \* m_tBehaviorPID as constructed
NoFD           == -1          \* m_nSharedMemFD as constructed
ChildPID       == 1           \* a positive pid, as fork returns it to the parent
ShmFD          == 3           \* a non-negative descriptor, as shm_open returns it

Devices == {"motors", "leds", "commA", "commS", "light"}

(* Values the sensors can deliver in one tick. *)
LightReadings == {0, 7}
PacketCounts  == {0, 1, 3, 256, 257}

(* Packet i (0-based, as in the code) of the inbox of tick k. *)
Packet(k, i) == [Message |-> 10 * k + i, Distance |-> 100 * k + i]

(* What one round of the behavior program may leave in the actuator fields. *)
BehaviorOutputs ==
  { [tx_state |-> 0, tx_message |-> 0, left_motor |-> 0,   right_motor |-> 0,   color |-> 0],
    [tx_state |-> 1, tx_message |-> 5, left_motor |-> 255, right_motor |-> 85,  color |-> 27],
    [tx_state |-> 1, tx_message |-> 6, left_motor |-> 85,  right_motor |-> 255, color |-> 36] }

Slots == 0 .. (KILOBOT_MAX_RX - 1)

(* memset(m_ptRobotState, 0, sizeof(kilobot_state_t)) *)
ZeroRecord ==
  [ ambientlight |-> 0,
    rx_state     |-> 0,
    rx_message   |-> [i \in Slots |-> 0],
    rx_distance  |-> [i \in Slots |-> 0],
    tx_state     |-> 0,
    tx_message   |-> 0,
    left_motor   |-> 0,
    right_motor  |-> 0,
    color        |-> 0 ]

Min(a, b) == IF a < b THEN a ELSE b

(* static_cast to UInt8 of a size_t *)
ToUInt8(n) == n % UInt8Range

(* RED / GREEN / BLUE of the bit-packed color, two bits per channel *)
RED(c)   == c % 4
GREEN(c) == (c \div 4) % 4
BLUE(c)  == (c \div 16) % 4

VARIABLES
  pc,               \* position of the simulator
  present,          \* the collaborators Init found (m_pcMotors ... m_pcLight non-NULL)
  m_tBehaviorPID,   \* NoPID, or ChildPID: what fork returned to the parent
  m_nSharedMemFD,   \* NoFD, or ShmFD
  m_ptRobotState,   \* "NULL", "MAP_FAILED", "addr"
  shmExists,        \* the named object "/<ppid>_<id>" exists
  fdOpen,           \* the descriptor m_nSharedMemFD is open
  mapped,           \* the simulator has the object mapped at m_ptRobotState
  rec,              \* the State Record (content of the shared mapping)
  childSt,          \* position of the behavior child
  termPending,      \* a SIGTERM is pending for the child
  rounds,           \* behavior rounds the child has completed
  steps,            \* ControlStep calls that have returned
  resets,           \* Reset calls made
  motorsOut,        \* last SetLinearVelocity arguments (numerators over 255)
  ledOut,           \* last SetSingleColor argument
  radioOut,         \* last SetMessage argument
  hist              \* history of the run: counters and observations

vars == << pc, present, m_tBehaviorPID, m_nSharedMemFD, m_ptRobotState,
           shmExists, fdOpen, mapped, rec, childSt, termPending, rounds, steps, resets,
           motorsOut, ledOut, radioOut, hist >>

(* ---- what the operating system may answer to Init's calls ---- *)

Environments ==
  [ attrOK  : BOOLEAN,    \* the "behavior" attribute is present
    openOK  : BOOLEAN,    \* open(strBehavior, O_RDONLY) succeeds
    shmOK   : BOOLEAN,    \* shm_open succeeds
    truncOK : BOOLEAN,    \* ftruncate succeeds
    mmapOK  : BOOLEAN,    \* mmap succeeds
    forkOK  : BOOLEAN ]   \* fork succeeds

(* Content of an object left behind under the same name. *)
StaleRecord ==
  [ ZeroRecord EXCEPT !.ambientlight = 7, !.rx_state = 1, !.tx_state = 1,
                      !.tx_message = 5, !.color = 27 ]

NoHistory ==
  [ initError   |-> "notcalled", \* the step of Init that threw ("none": Init returned)
    shmOpens    |-> 0,           \* successful shm_open calls
    forks       |-> 0,           \* successful fork calls
    writeRace   |-> FALSE,       \* the simulator wrote the record while the child ran
    readRace    |-> FALSE,       \* the simulator read the actuator fields while it ran
    contSent    |-> 0,           \* kill(SIGCONT) calls made by ControlStep
    waits       |-> 0,           \* waitpid calls of ControlStep that have returned
    waitSaw     |-> "none",      \* what the last ControlStep wait returned on
    outcome     |-> "none",      \* how the last ControlStep ended
    reaps       |-> 0,           \* times the child was reaped
    reapedIn    |-> "none",      \* the operation whose waitpid reaped the child
    unlinks     |-> 0 ]          \* successful shm_unlink calls

(* An object of the same name may have been left behind, with content. *)
Init ==
  /\ pc = "new"
  /\ present = {}
  /\ m_tBehaviorPID = NoPID
  /\ m_nSharedMemFD = NoFD
  /\ m_ptRobotState = "NULL"
  /\ shmExists \in BOOLEAN
  /\ fdOpen = FALSE
  /\ mapped = FALSE
  /\ rec = IF shmExists THEN StaleRecord ELSE ZeroRecord
  /\ childSt = "none"
  /\ termPending = FALSE
  /\ rounds = 0
  /\ steps = 0
  /\ resets = 0
  /\ motorsOut = << 0, 0 >>
  /\ ledOut = << 0, 0, 0 >>
  /\ radioOut = 0
  /\ hist = NoHistory

(* ---- CCI_KilobotController::Init ---- *)

(* The first step of Init that fails, in the order the code runs them.     *)
(* The result of ftruncate is not looked at: when it failed on a new       *)
(* object the memset of line 73 touches pages past the end of the object   *)
(* and the simulator dies of SIGBUS.                                       *)
InitError(e, stale) ==
  IF ~e.attrOK THEN "attribute"
  ELSE IF ~e.openOK THEN "open"
  ELSE IF ~e.shmOK THEN "shm_open"
  ELSE IF ~e.mmapOK THEN "mmap"
  ELSE IF ~e.truncOK /\ ~stale THEN "SIGBUS"
  ELSE IF ~e.forkOK THEN "fork"
  ELSE "none"

(* A faulty variant: the object is opened before the behavior file is looked at. *)
ShmOpened_BeforeFileCheck(err) == err \notin {"attribute", "shm_open"}

(* A faulty variant: no memset, a new object being zero-filled anyway. *)
Zeroed_Never(err) == FALSE

(* The steps of Init that have run when it ends with error err. *)
ShmOpened(err) == err \notin {"attribute", "open", "shm_open"}
Mmapped(err)   == ShmOpened(err) /\ err # "mmap"
Zeroed(err)    == Mmapped(err) /\ err # "SIGBUS"
Forked(err)    == err = "none"

(* Init with the collaborators devs found and the answers e. *)
InitWith(devs, e) ==
  /\ pc = "new"
  /\ LET err == InitError(e, shmExists) IN
       /\ present' = devs
       /\ m_nSharedMemFD' = IF ShmOpened(err) THEN ShmFD ELSE NoFD
       /\ fdOpen' = ShmOpened(err)
       /\ shmExists' = (shmExists \/ ShmOpened(err))
       /\ m_ptRobotState' = IF Mmapped(err) THEN "addr"
                            ELSE IF ShmOpened(err) THEN "MAP_FAILED" ELSE "NULL"
       /\ mapped' = Mmapped(err)
       /\ rec' = IF Zeroed(err) THEN ZeroRecord ELSE rec
       /\ m_tBehaviorPID' = IF Forked(err) THEN ChildPID ELSE NoPID
       /\ childSt' = IF Forked(err) THEN "forked" ELSE "none"
       /\ pc' = IF err = "none" THEN "idle"
                ELSE IF err = "SIGBUS" THEN "crashed" ELSE "failed"
       /\ hist' = [hist EXCEPT !.initError = err,
                               !.shmOpens = IF ShmOpened(err) THEN 1 ELSE 0,
                               !.forks = IF Forked(err) THEN 1 ELSE 0]
  /\ UNCHANGED << termPending, rounds, steps, resets, motorsOut, ledOut, radioOut >>

InitCall ==
  /\ pc = "new"
  /\ \E devs \in SUBSET Devices, e \in Environments : InitWith(devs, e)

(* ---- signals and waiting, as the kernel performs them ---- *)

Alive(st)   == st \in {"forked", "startup", "running", "stopped", "rogue"}
Running(st) == st \in {"forked", "startup", "running", "rogue"}

(* Whom kill(pid, sig) reaches: pid -1 is every process the caller may     *)
(* signal; the pid of a reaped child denotes no child of the controller.   *)
KillTarget(pid, st) ==
  IF pid = NoPID THEN "everyone"
  ELSE IF st \in {"none", "reaped"} THEN "stale"
  ELSE "child"

(* SIGCONT resumes a stopped process and does nothing to a running one. *)
AfterSIGCONT(pid, st) ==
  IF KillTarget(pid, st) = "child" /\ st = "stopped" THEN "running" ELSE st

(* SIGTERM stays pending until the process runs. *)
AfterSIGTERM(pid, st, pending) ==
  pending \/ (KillTarget(pid, st) = "child" /\ Alive(st))

(* waitpid(pid, ..., WUNTRACED) returns on a stopped child, on a terminated *)
(* child (which it reaps), and at once with ECHILD when there is no child. *)
WaitUntracedReturns(st) == st \in {"stopped", "zombie", "reaped", "none"}

(* A faulty variant: a wait that returns only by reaping, and so does not tolerate   *)
(* a child that is already gone.                                           *)
WaitReturns_OnlyByReaping(st, options) == st = "zombie"

(* waitpid(pid, ..., 0) returns on a terminated child or with ECHILD;      *)
(* waitpid(pid, ..., WNOHANG) returns at once.                             *)
WaitReturns(st, options) ==
  \/ options = "WNOHANG"
  \/ st \in {"zombie", "reaped", "none"}

WaitResult(st) ==
  CASE st = "stopped" -> "stopped"
    [] st = "zombie"  -> "exited"
    [] st \in {"reaped", "none"} -> "ECHILD"
    [] OTHER -> "nothing"

AfterWait(st) == IF st = "zombie" THEN "reaped" ELSE st

(* ---- CCI_KilobotController::ControlStep ---- *)

(* Lines 104-123: the sensor fields written before the child is resumed. *)
WriteSensors(r, devs, reading, n, k, sent) ==
  LET r1  == IF "light" \in devs THEN [r EXCEPT !.ambientlight = reading] ELSE r
      cnt == Min(ToUInt8(n), KILOBOT_MAX_RX)
      r2  == IF "commS" \in devs /\ n # 0
             THEN [r1 EXCEPT
                     !.rx_state = cnt,
                     !.rx_message = [i \in Slots |->
                        IF i < cnt THEN Packet(k, i).Message ELSE r1.rx_message[i]],
                     !.rx_distance = [i \in Slots |->
                        IF i < cnt THEN Packet(k, i).Distance ELSE r1.rx_distance[i]]]
             ELSE r1
      r3  == IF "commS" \in devs /\ sent THEN [r2 EXCEPT !.tx_state = 2] ELSE r2
  IN r3

(* Whether lines 104-123 store anything into the record. *)
WritesSensors(devs, n, sent) ==
  "light" \in devs \/ ("commS" \in devs /\ (n # 0 \/ sent))

(* Lines 104-123 in a tick whose light reading is reading, whose inbox     *)
(* holds n packets and whose MessageSent() is sent.                        *)
CS_WriteWith(reading, n, sent) ==
  /\ pc = "idle"
  /\ steps < MaxSteps
  /\ rec' = WriteSensors(rec, present, reading, n, steps + 1, sent)
  /\ hist' = [hist EXCEPT !.writeRace =
                @ \/ (WritesSensors(present, n, sent) /\ Running(childSt))]
  /\ pc' = "cs_kill"
  /\ UNCHANGED << present, m_tBehaviorPID, m_nSharedMemFD, m_ptRobotState,
                  shmExists, fdOpen, mapped, childSt, termPending, rounds, steps,
                  resets, motorsOut, ledOut, radioOut >>

CS_Write ==
  /\ pc = "idle"
  /\ \E reading \in LightReadings, n \in PacketCounts, sent \in BOOLEAN :
       CS_WriteWith(reading, n, sent)

(* A faulty variant: the resume sits inside the if(m_pcCommS) block. *)
CS_Kill_InsideSensorBlock ==
  /\ pc = "cs_kill"
  /\ childSt' = IF "commS" \in present THEN AfterSIGCONT(m_tBehaviorPID, childSt) ELSE childSt
  /\ hist' = [hist EXCEPT !.contSent = IF "commS" \in present THEN @ + 1 ELSE @]
  /\ pc' = "cs_wait"
  /\ UNCHANGED << present, m_tBehaviorPID, m_nSharedMemFD, m_ptRobotState,
                  shmExists, fdOpen, mapped, rec, termPending, rounds, steps,
                  resets, motorsOut, ledOut, radioOut >>

(* A faulty variant: the inbox count is cleared as the child is resumed. *)
CS_Kill_ClearsInbox ==
  /\ pc = "cs_kill"
  /\ childSt' = AfterSIGCONT(m_tBehaviorPID, childSt)
  /\ rec' = [rec EXCEPT !.rx_state = 0]
  /\ hist' = [hist EXCEPT !.contSent = @ + 1]
  /\ pc' = "cs_wait"
  /\ UNCHANGED << present, m_tBehaviorPID, m_nSharedMemFD, m_ptRobotState,
                  shmExists, fdOpen, mapped, termPending, rounds, steps,
                  resets, motorsOut, ledOut, radioOut >>

(* Line 127: kill(m_tBehaviorPID, SIGCONT) *)
CS_Kill ==
  /\ pc = "cs_kill"
  /\ childSt' = AfterSIGCONT(m_tBehaviorPID, childSt)
  /\ hist' = [hist EXCEPT !.contSent = @ + 1]
  /\ pc' = "cs_wait"
  /\ UNCHANGED << present, m_tBehaviorPID, m_nSharedMemFD, m_ptRobotState,
                  shmExists, fdOpen, mapped, rec, termPending, rounds, steps,
                  resets, motorsOut, ledOut, radioOut >>

(* Line 129: waitpid(m_tBehaviorPID, NULL, WUNTRACED); the status is dropped. *)
CS_Wait ==
  /\ pc = "cs_wait"
  /\ WaitUntracedReturns(childSt)
  /\ childSt' = AfterWait(childSt)
  /\ hist' = [hist EXCEPT !.waits = @ + 1,
                          !.waitSaw = WaitResult(childSt),
                          !.reaps = IF childSt = "zombie" THEN @ + 1 ELSE @,
                          !.reapedIn = IF childSt = "zombie" THEN "ControlStep" ELSE @]
  /\ pc' = "cs_read"
  /\ UNCHANGED << present, m_tBehaviorPID, m_nSharedMemFD, m_ptRobotState,
                  shmExists, fdOpen, mapped, rec, termPending, rounds, steps,
                  resets, motorsOut, ledOut, radioOut >>

(* How ControlStep ends after its wait returned with result saw: the code  *)
(* passes NULL for the status and goes on in every case.                   *)
StepOutcome(saw) == "normal"

(* A faulty variant: the message is handed over whenever tx_state is not 0. *)
RadioAfterRead_WheneverNonZero(r, devs, last) ==
  IF "commA" \in devs /\ r.tx_state # 0 THEN r.tx_message ELSE last

(* The message handed to the radio by lines 142-144, or the one handed    *)
(* over before when nothing is handed over.                                *)
RadioAfterRead(r, devs, last) ==
  IF "commA" \in devs /\ r.tx_state = 1 THEN r.tx_message ELSE last

(* A faulty variant: tx_state is cleared once the message is handed over. *)
CS_Read_ClearsTxState ==
  /\ pc = "cs_read"
  /\ motorsOut' = IF "motors" \in present
                  THEN << 3 * rec.right_motor, 3 * rec.left_motor >> ELSE motorsOut
  /\ ledOut' = IF "leds" \in present
               THEN << (255 * RED(rec.color)) \div 3,
                       (255 * GREEN(rec.color)) \div 3,
                       (255 * BLUE(rec.color)) \div 3 >>
               ELSE ledOut
  /\ radioOut' = RadioAfterRead(rec, present, radioOut)
  /\ rec' = IF "commA" \in present /\ rec.tx_state = 1
            THEN [rec EXCEPT !.tx_state = 0] ELSE rec
  /\ hist' = [hist EXCEPT !.readRace = @ \/ Running(childSt),
                          !.outcome = StepOutcome(hist.waitSaw)]
  /\ steps' = steps + 1
  /\ pc' = "idle"
  /\ UNCHANGED << present, m_tBehaviorPID, m_nSharedMemFD, m_ptRobotState,
                  shmExists, fdOpen, mapped, childSt, termPending, rounds, resets >>

(* Lines 132-144: the actuator fields handed to the collaborators. *)
CS_Read ==
  /\ pc = "cs_read"
  /\ motorsOut' = IF "motors" \in present
                  THEN << 3 * rec.right_motor, 3 * rec.left_motor >> ELSE motorsOut
  /\ ledOut' = IF "leds" \in present
               THEN << (255 * RED(rec.color)) \div 3,
                       (255 * GREEN(rec.color)) \div 3,
                       (255 * BLUE(rec.color)) \div 3 >>
               ELSE ledOut
  /\ radioOut' = RadioAfterRead(rec, present, radioOut)
  /\ hist' = [hist EXCEPT !.readRace = @ \/ Running(childSt),
                          !.outcome = StepOutcome(hist.waitSaw)]
  /\ steps' = steps + 1
  /\ pc' = "idle"
  /\ UNCHANGED << present, m_tBehaviorPID, m_nSharedMemFD, m_ptRobotState,
                  shmExists, fdOpen, mapped, rec, childSt, termPending, rounds, resets >>

(* ---- CCI_KilobotController::Reset ---- *)

(* A faulty variant: only the sensor fields are cleared. *)
Reset_SensorFieldsOnly ==
  /\ pc = "idle"
  /\ resets < MaxResets
  /\ rec' = [ZeroRecord EXCEPT !.tx_state = rec.tx_state, !.tx_message = rec.tx_message,
                               !.left_motor = rec.left_motor,
                               !.right_motor = rec.right_motor, !.color = rec.color]
  /\ resets' = resets + 1
  /\ hist' = [hist EXCEPT !.writeRace = @ \/ Running(childSt)]
  /\ UNCHANGED << pc, present, m_tBehaviorPID, m_nSharedMemFD, m_ptRobotState,
                  shmExists, fdOpen, mapped, childSt, termPending, rounds, steps,
                  motorsOut, ledOut, radioOut >>

(* A faulty variant: Reset also resumes the child. *)
Reset_ResumesChild ==
  /\ pc = "idle"
  /\ resets < MaxResets
  /\ rec' = ZeroRecord
  /\ resets' = resets + 1
  /\ childSt' = AfterSIGCONT(m_tBehaviorPID, childSt)
  /\ hist' = [hist EXCEPT !.writeRace = @ \/ Running(childSt)]
  /\ UNCHANGED << pc, present, m_tBehaviorPID, m_nSharedMemFD, m_ptRobotState,
                  shmExists, fdOpen, mapped, termPending, rounds, steps,
                  motorsOut, ledOut, radioOut >>

Reset ==
  /\ pc = "idle"
  /\ resets < MaxResets
  /\ rec' = ZeroRecord
  /\ resets' = resets + 1
  /\ hist' = [hist EXCEPT !.writeRace = @ \/ Running(childSt)]
  /\ UNCHANGED << pc, present, m_tBehaviorPID, m_nSharedMemFD, m_ptRobotState,
                  shmExists, fdOpen, mapped, childSt, termPending, rounds, steps,
                  motorsOut, ledOut, radioOut >>

(* ---- CCI_KilobotController::Destroy ---- *)

(* Line 158: kill(m_tBehaviorPID, SIGTERM) *)
D_Term ==
  /\ pc \in {"idle", "failed"}
  /\ termPending' = AfterSIGTERM(m_tBehaviorPID, childSt, termPending)
  /\ pc' = "d_cont"
  /\ UNCHANGED << hist, present, m_tBehaviorPID, m_nSharedMemFD, m_ptRobotState,
                  shmExists, fdOpen, mapped, rec, childSt, rounds, steps, resets,
                  motorsOut, ledOut, radioOut >>

(* Line 159: kill(m_tBehaviorPID, SIGCONT) *)
D_Cont ==
  /\ pc = "d_cont"
  /\ childSt' = AfterSIGCONT(m_tBehaviorPID, childSt)
  /\ pc' = "d_wait"
  /\ UNCHANGED << hist, present, m_tBehaviorPID, m_nSharedMemFD, m_ptRobotState,
                  shmExists, fdOpen, mapped, rec, termPending, rounds, steps, resets,
                  motorsOut, ledOut, radioOut >>

(* Lines 160-161: the options argument is WIFEXITED(nStatus) of an          *)
(* uninitialized nStatus, that is 0 or 1, and 1 is WNOHANG.                 *)
DestroyWaitOptions == {"0", "WNOHANG"}

D_Wait ==
  /\ pc = "d_wait"
  /\ \E options \in DestroyWaitOptions :
       /\ WaitReturns(childSt, options)
       /\ hist' = [hist EXCEPT !.reaps = IF childSt = "zombie" THEN @ + 1 ELSE @,
                               !.reapedIn = IF childSt = "zombie" THEN "Destroy" ELSE @]
  /\ childSt' = AfterWait(childSt)
  /\ pc' = "d_munmap"
  /\ UNCHANGED << present, m_tBehaviorPID, m_nSharedMemFD, m_ptRobotState,
                  shmExists, fdOpen, mapped, rec, termPending, rounds, steps, resets,
                  motorsOut, ledOut, radioOut >>

(* Line 162: munmap fails (and does nothing) on NULL and MAP_FAILED. *)
D_Munmap ==
  /\ pc = "d_munmap"
  /\ mapped' = IF m_ptRobotState = "addr" THEN FALSE ELSE mapped
  /\ pc' = "d_close"
  /\ UNCHANGED << present, m_tBehaviorPID, m_nSharedMemFD, m_ptRobotState,
                  shmExists, fdOpen, rec, childSt, termPending, rounds, steps, resets,
                  motorsOut, ledOut, radioOut, hist >>

(* Line 163 *)
D_Close ==
  /\ pc = "d_close"
  /\ fdOpen' = FALSE
  /\ pc' = "d_unlink"
  /\ UNCHANGED << present, m_tBehaviorPID, m_nSharedMemFD, m_ptRobotState,
                  shmExists, mapped, rec, childSt, termPending, rounds, steps, resets,
                  motorsOut, ledOut, radioOut, hist >>

(* Lines 164-165: the name is built as in Init, from getpid() and GetId(). *)
D_Unlink ==
  /\ pc = "d_unlink"
  /\ shmExists' = FALSE
  /\ hist' = [hist EXCEPT !.unlinks = IF shmExists THEN @ + 1 ELSE @]
  /\ pc' = "destroyed"
  /\ UNCHANGED << present, m_tBehaviorPID, m_nSharedMemFD, m_ptRobotState,
                  fdOpen, mapped, rec, childSt, termPending, rounds, steps, resets,
                  motorsOut, ledOut, radioOut >>

(* ---- the forked child ---- *)

(* Lines 80-92: where the child goes when execl returns. The throw of line *)
(* 90 leaves the block before exit(1) is reached; the exception is         *)
(* rethrown by line 95 into the caller of Init, in the child.              *)
AfterExecFailure == "rogue"

ChildExec ==
  /\ childSt = "forked"
  /\ \E execOK \in BOOLEAN :
       /\ childSt' = IF execOK THEN "startup" ELSE AfterExecFailure
       /\ termPending' = IF execOK \/ AfterExecFailure # "zombie" THEN termPending ELSE FALSE
  /\ UNCHANGED << pc, present, m_tBehaviorPID, m_nSharedMemFD, m_ptRobotState,
                  shmExists, fdOpen, mapped, rec, rounds, steps, resets,
                  motorsOut, ledOut, radioOut, hist >>

(* The behavior program reaches its first checkpoint and stops itself. A   *)
(* pending SIGTERM is delivered before a stop signal the child raises.     *)
ChildSuspend ==
  /\ childSt = "startup"
  /\ ~termPending
  /\ childSt' = "stopped"
  /\ UNCHANGED << pc, present, m_tBehaviorPID, m_nSharedMemFD, m_ptRobotState,
                  shmExists, fdOpen, mapped, rec, termPending, rounds, steps, resets,
                  motorsOut, ledOut, radioOut, hist >>

(* One round of the behavior program: it reads the sensor fields, leaves   *)
(* its commands in the actuator fields and stops itself.                   *)
ChildRound ==
  /\ childSt = "running"
  /\ ~termPending
  /\ \E out \in BehaviorOutputs :
       rec' = [rec EXCEPT !.tx_state = out.tx_state, !.tx_message = out.tx_message,
                          !.left_motor = out.left_motor, !.right_motor = out.right_motor,
                          !.color = out.color]
  /\ rounds' = rounds + 1
  /\ childSt' = "stopped"
  /\ UNCHANGED << pc, present, m_tBehaviorPID, m_nSharedMemFD, m_ptRobotState,
                  shmExists, fdOpen, mapped, termPending, steps, resets,
                  motorsOut, ledOut, radioOut, hist >>

(* The child ends by itself (it returns from main, or crashes). *)
ChildExit ==
  /\ childSt \in {"startup", "running", "rogue"}
  /\ childSt' = "zombie"
  /\ termPending' = FALSE
  /\ UNCHANGED << pc, present, m_tBehaviorPID, m_nSharedMemFD, m_ptRobotState,
                  shmExists, fdOpen, mapped, rec, rounds, steps, resets,
                  motorsOut, ledOut, radioOut, hist >>

(* A pending SIGTERM ends the child once it runs. *)
ChildTerminate ==
  /\ termPending
  /\ Running(childSt)
  /\ childSt' = "zombie"
  /\ termPending' = FALSE
  /\ UNCHANGED << pc, present, m_tBehaviorPID, m_nSharedMemFD, m_ptRobotState,
                  shmExists, fdOpen, mapped, rec, rounds, steps, resets,
                  motorsOut, ledOut, radioOut, hist >>

(* ---- the specification ---- *)

ControlStep == CS_Write \/ CS_Kill \/ CS_Wait \/ CS_Read
Destroy     == D_Term \/ D_Cont \/ D_Wait \/ D_Munmap \/ D_Close \/ D_Unlink
Child       == ChildExec \/ ChildSuspend \/ ChildRound \/ ChildExit \/ ChildTerminate

Next == InitCall \/ ControlStep \/ Reset \/ Destroy \/ Child

Spec == Init /\ [][Next]_vars

TypeOK ==
  /\ pc \in {"new", "idle", "failed", "crashed", "cs_kill", "cs_wait", "cs_read",
             "d_cont", "d_wait", "d_munmap", "d_close", "d_unlink", "destroyed"}
  /\ childSt \in {"none", "forked", "startup", "running", "stopped", "rogue",
                  "zombie", "reaped"}
  /\ steps \in 0 .. MaxSteps
  /\ rounds \in 0 .. MaxSteps
  /\ rec.rx_state \in 0 .. KILOBOT_MAX_RX

(* The simulator process is scheduled: a Destroy that can take its next   *)
(* step takes it.                                                          *)
FairSpec == Spec /\ WF_vars(Destroy)

InitOK       == hist.initError = "none"
InDestroy    == pc \in {"d_cont", "d_wait", "d_munmap", "d_close", "d_unlink"}
ChildExited  == childSt \in {"zombie", "reaped"}

(* ---- the claims ---- *)

(* C1: no simulator-side write to the State Record (the sensor fields and  *)
(* tx_state = 2 of ControlStep, the zeroing of Reset) happens while the    *)
(* child is running; the first ControlStep after Init included.            *)
C1_WritesOnlyWhileChildStopped == ~hist.writeRace

(* C2: lock step. When the k-th ControlStep has returned and the child is  *)
(* a cooperative one, stopped at its checkpoint, the child has completed   *)
(* exactly k rounds; and the actuator fields are never read while the      *)
(* child runs.                                                             *)
C2_LockStep ==
  /\ ~hist.readRace
  /\ (pc = "idle" /\ childSt = "stopped") => rounds = steps

(* C3: after a successful Init the channel is never unmapped or unlinked   *)
(* while the child is alive, and when Destroy has returned the child has   *)
(* exited.                                                                 *)
C3_ReleaseOnlyAfterChildExit ==
  (InitOK /\ (~mapped \/ ~shmExists \/ pc = "destroyed")) => ~Alive(childSt)

(* C4: a successful Init followed at once by Destroy (no ControlStep, no   *)
(* Reset) leaves no shared memory object of that name and no live child.   *)
C4_InitDestroyLeavesNothing ==
  (InitOK /\ pc = "destroyed" /\ steps = 0 /\ resets = 0)
     => (~shmExists /\ ~Alive(childSt))

(* C5: a ControlStep whose wait returned because the child exited does not *)
(* end as a normal step does.                                              *)
C5_ChildExitSurfaced ==
  (pc = "idle" /\ steps > 0 /\ hist.waitSaw = "exited") => hist.outcome # "normal"

(* C6: the forked child never returns from Init into the simulator's code. *)
C6_ChildNeverRunsSimulatorCode == childSt # "rogue"

(* C7: a Destroy in progress whose child has already exited (reaped or     *)
(* not) runs to its end.                                                   *)
C7_DestroyAfterExitTerminates ==
  (InitOK /\ InDestroy /\ ChildExited) ~> (pc = "destroyed")

C7_Witness == pc = "destroyed" /\ hist.reapedIn = "ControlStep" /\ ~shmExists

(* C8: when Destroy has returned after a successful Init, the object was    *)
(* unlinked exactly once and the child reaped exactly once, by Destroy.    *)
C8_ReleasedOnceInDestroy ==
  (InitOK /\ pc = "destroyed")
     => (hist.unlinks = 1 /\ hist.reaps = 1 /\ hist.reapedIn = "Destroy")

(* C9: every ControlStep makes exactly one kill(SIGCONT) call and exactly  *)
(* one waitpid call, the kill first, whichever collaborators are present.  *)
C9_OneResumeOneWaitPerStep ==
  /\ hist.contSent = steps + (IF pc \in {"cs_wait", "cs_read"} THEN 1 ELSE 0)
  /\ hist.waits    = steps + (IF pc = "cs_read" THEN 1 ELSE 0)

C9_Witness == steps = MaxSteps /\ pc = "idle" /\ present = {} /\ hist.contSent = MaxSteps

(* C10: an Init whose open of the behavior file fails ends with an error   *)
(* having forked nothing and opened, created or mapped no shared memory    *)
(* object.                                                                 *)
C10_NoBehaviorFileNoResources ==
  hist.initError = "open"
     => /\ pc \in {"failed", "destroyed"} \/ InDestroy
        /\ hist.forks = 0 /\ childSt = "none" /\ m_tBehaviorPID = NoPID
        /\ hist.shmOpens = 0 /\ m_nSharedMemFD = NoFD /\ ~fdOpen
        /\ m_ptRobotState = "NULL" /\ ~mapped

C10_Witness == hist.initError = "open" /\ pc = "failed" /\ ~shmExists

(* C11: whenever shm_open, ftruncate or mmap fails in Init (the behavior   *)
(* file being there), Init ends with an error and no child is created.     *)
C11_ChannelFailureFailsInit ==
  [][pc = "new" => \A devs \in SUBSET Devices, e \in Environments :
       (e.attrOK /\ e.openOK /\ (~e.shmOK \/ ~e.truncOK \/ ~e.mmapOK) /\ InitWith(devs, e))
          => (pc' = "failed" /\ childSt' = "none")]_vars

(* C12: in a tick in which n >= 1 packets were received, ControlStep sets  *)
(* rx_state to min(n, KILOBOT_MAX_RX) and copies exactly the first         *)
(* min(n, KILOBOT_MAX_RX) message/distance pairs, for n of 256 and beyond  *)
(* too.                                                                    *)
C12_CountIsMinOfPacketsAndMax ==
  [][pc = "idle" => \A reading \in LightReadings, n \in PacketCounts \ {0}, sent \in BOOLEAN :
       ("commS" \in present /\ CS_WriteWith(reading, n, sent))
          => /\ rec'.rx_state = Min(n, KILOBOT_MAX_RX)
             /\ \A i \in Slots :
                  IF i < Min(n, KILOBOT_MAX_RX)
                  THEN /\ rec'.rx_message[i] = Packet(steps + 1, i).Message
                       /\ rec'.rx_distance[i] = Packet(steps + 1, i).Distance
                  ELSE /\ rec'.rx_message[i] = rec.rx_message[i]
                       /\ rec'.rx_distance[i] = rec.rx_distance[i]]_vars

(* C13: in a tick in which no packet was received, rx_state is 0 when the  *)
(* child is resumed, whatever it held at the end of the tick before; here  *)
(* for a child that has kept lock step and waits at its checkpoint.        *)
C13_NoPacketsMeansZeroCount ==
  [][pc = "idle" => \A reading \in LightReadings, sent \in BOOLEAN :
       ("commS" \in present /\ childSt = "stopped" /\ rounds = steps
          /\ CS_WriteWith(reading, 0, sent)) => rec'.rx_state = 0]_vars

SensorFields(r) == << r.ambientlight, r.rx_state, r.rx_message, r.rx_distance >>

AllZero(r) ==
  /\ r.ambientlight = 0 /\ r.rx_state = 0
  /\ \A i \in Slots : r.rx_message[i] = 0 /\ r.rx_distance[i] = 0
  /\ r.tx_state = 0 /\ r.tx_message = 0
  /\ r.left_motor = 0 /\ r.right_motor = 0 /\ r.color = 0

(* C14: from the sensor write of a step to the end of that step's wait the *)
(* sensor fields do not change, and the child runs its round only inside   *)
(* that wait: what it reads in step k is what the simulator wrote in step  *)
(* k.                                                                      *)
C14_SensorRoundTrip ==
  [][/\ pc \in {"cs_kill", "cs_wait"} => SensorFields(rec') = SensorFields(rec)
     /\ rounds' # rounds => (pc = "cs_wait" /\ pc' = "cs_wait")]_vars

C14_Witness ==
  /\ pc = "cs_read" /\ childSt = "stopped"
  /\ rounds >= 1 /\ rounds = hist.contSent
  /\ rec.ambientlight = 7 /\ rec.rx_state = KILOBOT_MAX_RX
  /\ rec.rx_message[0] = Packet(steps + 1, 0).Message

(* C15: no step of ControlStep stores a value other than 2 into tx_state,  *)
(* and tx_state goes from 2 to 1 only in a round of the child.             *)
C15_SimulatorOnlyMarksSent ==
  [][/\ ControlStep => rec'.tx_state \in {rec.tx_state, 2}
     /\ (rec.tx_state = 2 /\ rec'.tx_state = 1) => rounds' = rounds + 1]_vars

C15_Witness == pc = "cs_wait" /\ rec.tx_state = 2 /\ childSt = "running"

(* C16: Reset leaves every field of the record zero, whatever it held, and *)
(* a Reset of an all-zero record leaves it as it is.                       *)
C16_ResetZeroesAndIsIdempotent ==
  [][resets' # resets => (AllZero(rec') /\ (AllZero(rec) => rec' = rec))]_vars

C16_Witness ==
  /\ resets = 1 /\ pc = "idle" /\ AllZero(rec)
  /\ steps = MaxSteps /\ "motors" \in present /\ motorsOut # << 0, 0 >>

(* C17: Reset sends no signal, waits for nothing and leaves the child, its *)
(* pid, the object, the descriptor and the mapping as they are; no step of *)
(* ControlStep changes the object, the descriptor or the mapping.          *)
C17_ResetTouchesOnlyTheRecord ==
  [][/\ resets' # resets =>
          /\ UNCHANGED << pc, childSt, termPending, m_tBehaviorPID, shmExists, fdOpen,
                          mapped, m_nSharedMemFD, m_ptRobotState, rounds, steps >>
          /\ hist'.contSent = hist.contSent /\ hist'.waits = hist.waits
          /\ hist'.reaps = hist.reaps
     /\ ControlStep =>
          UNCHANGED << shmExists, fdOpen, mapped, m_nSharedMemFD, m_ptRobotState >>]_vars

C17_Witness ==
  /\ resets >= 1 /\ steps >= 1 /\ pc = "idle" /\ AllZero(rec)
  /\ childSt = "stopped" /\ mapped /\ fdOpen /\ shmExists

(* C18: at the step of Init that creates the child every field of the      *)
(* record is zero, also when an object with content was there before.      *)
C18_RecordZeroAtFork ==
  [][(childSt = "none" /\ childSt' = "forked") => AllZero(rec')]_vars

C18_Witness == childSt = "forked" /\ pc = "idle" /\ hist.forks = 1 /\ AllZero(rec)

(* C19: the read of a step hands tx_message to the radio exactly when the  *)
(* transmit collaborator is there and tx_state is 1; it happens after the  *)
(* wait of the step, on the record as that wait left it, with the child    *)
(* not running.                                                            *)
C19_RadioGetsReadyMessage ==
  [][/\ CS_Read => /\ radioOut' = (IF "commA" \in present /\ rec.tx_state = 1
                                   THEN rec.tx_message ELSE radioOut)
                   /\ ~Running(childSt)
                   /\ hist.waits = steps + 1 /\ hist.contSent = steps + 1
     /\ (pc = "cs_wait" /\ pc' = "cs_read") => rec' = rec
     /\ pc = "cs_read" => rec' = rec]_vars

C19_Witness ==
  /\ pc = "idle" /\ steps >= 1 /\ "commA" \in present
  /\ rec.tx_state = 1 /\ rec.tx_message = 6 /\ radioOut = 6 /\ rounds >= 1

(* C20: after a successful Init every kill of ControlStep and Destroy       *)
(* reaches the controller's own child, not yet reaped.                     *)
C20_SignalsReachOwnChild ==
  [][(InitOK /\ (CS_Kill \/ D_Term \/ D_Cont))
        => KillTarget(m_tBehaviorPID, childSt) = "child"]_vars

====
